---------------------------- MODULE Spec2Model ----------------------------
(***************************************************************************)
(* A model of the Markov chain of src/src/lib.rs: the Chain (its map from  *)
(* context windows to successor counts and its order), feed, order,        *)
(* is_empty, the two generators with their sampling loop, and the sized    *)
(* and infinite iterators.                                                 *)
(*                                                                         *)
(* A slot Option<Rc<T>> is a natural number: None is 0, Some(t) is the     *)
(* token t >= 1.  A context window Vec<Option<Rc<T>>> is a sequence of     *)
(* slots.  A HashMap is a function whose DOMAIN is its key set.            *)
(***************************************************************************)
EXTENDS Naturals, Integers, Sequences, FiniteSets, TLC

\* ------------------------------------------------------------------ bounds

\* The longest token sequence fed in the general specification.
MaxLen == 2
\* The largest order passed to order().
MaxOrder == 2
\* The number of mutating calls (order, feed) of one run.
MaxOps == 2
\* The same, in the runs over the inputs of the crate's tests.
MaxTestOps == 3
\* The longest output a generator call builds before the model stops following it.
MaxGen == 4
\* The largest size passed to iter_for().
MaxIter == 1
\* The number of next() calls made on one iterator.
MaxPulls == 2

\* The tokens of the general specification.
Tokens == {1, 2}
\* A token that is never fed, used as a seed.
UnfedToken == 9

\* ------------------------------------------------------------------ values

\* Option::None, the boundary marker.
None == 0

\* HashMap::new(): the distribution with no entries.
EmptyDist == [s \in {} |-> 0]

\* vec!(None; k) and vec!(Some(token); k)
Repeat(slot, k) == [i \in 1..k |-> slot]

NoneKey(k) == Repeat(None, k)

\* All token sequences of length at most n over the set T.
SeqsUpTo(T, n) == UNION {[1..l -> T] : l \in 0..n}

FeedInputs == SeqsUpTo(Tokens, MaxLen)
Seeds == Tokens \cup {UnfedToken}
Orders == 0..MaxOrder

\* The inputs of the crate's own tests (test::generate, generate_for_higher_order,
\* generate_from_token, generate_from_unfound_token, iter_for).
TestInputs == {<<3, 5, 10>>, <<5, 12>>, <<2, 3, 5, 12>>}
\* The same and a sequence that repeats a token.
TestFeeds == TestInputs \cup {<<5, 5>>}
TestSeeds == {5, 9}

VARIABLES
    map,      \* Chain.map: context window -> (successor slot -> count)
    order,    \* Chain.order
    hist,     \* the mutating calls made so far, in order (history)
    pc,       \* "idle" | "loop" | "returned" | "panic"
    call,     \* the call in progress, last returned or that panicked
    seed,     \* the argument of generate_from_token
    curs,     \* the generator's context window
    ret,      \* the generator's output so far
    iter,     \* the live iterator: "none" | "sized" | "infinite"
    size,     \* SizedChainIterator.size
    size0,    \* the size given to iter_for (history)
    pulls,    \* next() calls returned on the live iterator (history)
    item      \* what the last next() returned: "unpulled" | "Some" | "None"

vars == <<map, order, hist, pc, call, seed, curs, ret, iter, size, size0, pulls, item>>

chainVars == <<map, order, hist>>
callVars == <<call, seed, curs, ret>>
iterVars == <<iter, size, size0, pulls, item>>

\* ------------------------------------------------------------------ States

\* Mutant of States_add: a new entry starts at zero.
States_add_ZeroFirst(dist, token) ==
    IF token \in DOMAIN dist
    THEN [dist EXCEPT ![token] = @ + 1]
    ELSE (token :> 0) @@ dist

\* Mutant of States_add: an entry that exists is set to 1, not incremented.
States_add_Overwrite(dist, token) == (token :> 1) @@ dist

\* States::add: count the token once more.
States_add(dist, token) ==
    IF token \in DOMAIN dist
    THEN [dist EXCEPT ![token] = @ + 1]
    ELSE (token :> 1) @@ dist

RECURSIVE SumOver(_, _)
SumOver(dist, S) ==
    IF S = {} THEN 0
    ELSE LET s == CHOOSE x \in S : TRUE
         IN dist[s] + SumOver(dist, S \ {s})

\* The first loop of States::next: the sum of all counts.
Total(dist) == SumOver(dist, DOMAIN dist)

\* The orders in which a HashMap may enumerate its entries.
Enumerations(dist) ==
    LET n == Cardinality(DOMAIN dist)
    IN {e \in [1..n -> DOMAIN dist] : \A i, j \in 1..n : i # j => e[i] # e[j]}

\* The result of the second loop of States::next when no entry is returned.
Unreachable == -1

\* Mutant of Scan: the test is sum >= cap.
RECURSIVE ScanGeq(_, _, _, _, _)
ScanGeq(dist, enum, cap, i, sum) ==
    IF i > Len(enum) THEN Unreachable
    ELSE LET s == sum + dist[enum[i]]
         IN IF s >= cap THEN enum[i] ELSE ScanGeq(dist, enum, cap, i + 1, s)

RECURSIVE Scan(_, _, _, _, _)
Scan(dist, enum, cap, i, sum) ==
    IF i > Len(enum) THEN Unreachable
    ELSE LET s == sum + dist[enum[i]]
         IN IF s > cap THEN enum[i] ELSE Scan(dist, enum, cap, i + 1, s)

\* States::next once the random number cap is drawn: the first entry, in the
\* enumeration order enum, whose running sum exceeds cap.
States_next(dist, enum, cap) == Scan(dist, enum, cap, 1, 0)

\* ------------------------------------------------------------------ Chain

\* Chain::new
new_map == (NoneKey(1) :> EmptyDist)

\* HashMap::insert: the value of an existing key is replaced.
Insert(m, key, value) ==
    [c \in DOMAIN m \cup {key} |-> IF c = key THEN value ELSE m[c]]

\* Mutant of FeedWindow: the contains_key test is left out, so the window's
\* distribution is replaced by an empty one before the successor is counted.
FeedWindowNoGuard(m, k, p) ==
    LET key == SubSeq(p, 1, k)
        m1 == Insert(m, key, EmptyDist)
    IN [m1 EXCEPT ![key] = States_add(@, p[k + 1])]

\* The body of the loop of Chain::feed for one window p of order + 1 slots.
FeedWindow(m, k, p) ==
    LET key == SubSeq(p, 1, k)
        m1 == IF key \in DOMAIN m THEN m ELSE Insert(m, key, EmptyDist)
    IN [m1 EXCEPT ![key] = States_add(@, p[k + 1])]

\* Mutant of Padded: toks.push(None) is forgotten.
PaddedNoEnd(k, tokens) == NoneKey(k) \o tokens

\* toks: order boundary markers, the tokens, one boundary marker.
Padded(k, tokens) == NoneKey(k) \o tokens \o <<None>>

\* Mutant of FeedFrom: the last window of toks is not visited.
RECURSIVE FeedFromShort(_, _, _, _)
FeedFromShort(m, k, toks, i) ==
    IF i + k >= Len(toks) THEN m
    ELSE FeedFromShort(FeedWindow(m, k, SubSeq(toks, i, i + k)), k, toks, i + 1)

RECURSIVE FeedFrom(_, _, _, _)
FeedFrom(m, k, toks, i) ==
    IF i + k > Len(toks) THEN m
    ELSE FeedFrom(FeedWindow(m, k, SubSeq(toks, i, i + k)), k, toks, i + 1)

\* Mutant of FeedMap: the early return on an empty input is left out.
FeedMapNoReturn(m, k, tokens) == FeedFrom(m, k, Padded(k, tokens), 1)

\* The map after Chain::feed(tokens) at order k.
FeedMap(m, k, tokens) ==
    IF Len(tokens) = 0 THEN m
    ELSE FeedFrom(m, k, Padded(k, tokens), 1)

\* Chain::is_empty (its index fails when the start window is no key).
is_empty == map[NoneKey(order)] = EmptyDist

Ready == pc \in {"idle", "returned"}

ClearCall ==
    /\ pc' = "idle"
    /\ call' = "none"
    /\ seed' = None
    /\ curs' = <<>>
    /\ ret' = <<>>

\* Mutant of Chain_order: the start window of the new order is not inserted.
Chain_order_NoInsert(k) ==
    /\ Ready
    /\ iter = "none"
    /\ IF k > 0
       THEN /\ order' = k
            /\ map' = map
            /\ hist' = Append(hist, [op |-> "order", k |-> k, toks |-> <<>>])
            /\ ClearCall
       ELSE /\ pc' = "panic"
            /\ call' = "order"
            /\ seed' = None
            /\ curs' = <<>>
            /\ ret' = <<>>
            /\ UNCHANGED chainVars
    /\ UNCHANGED iterVars

\* Chain::order.  A &mut borrow: no iterator is alive.
Chain_order(k) ==
    /\ Ready
    /\ iter = "none"
    /\ IF k > 0
       THEN /\ order' = k
            /\ map' = Insert(map, NoneKey(k), EmptyDist)
            /\ hist' = Append(hist, [op |-> "order", k |-> k, toks |-> <<>>])
            /\ ClearCall
       ELSE \* assert!(order > 0) fails
            /\ pc' = "panic"
            /\ call' = "order"
            /\ seed' = None
            /\ curs' = <<>>
            /\ ret' = <<>>
            /\ UNCHANGED chainVars
    /\ UNCHANGED iterVars

\* Chain::feed.  A &mut borrow: no iterator is alive.
Chain_feed(tokens) ==
    /\ Ready
    /\ iter = "none"
    /\ map' = FeedMap(map, order, tokens)
    /\ hist' = Append(hist, [op |-> "feed", k |-> order, toks |-> tokens])
    /\ ClearCall
    /\ UNCHANGED <<order, iterVars>>

\* Chain::generate up to its loop.
Chain_generate ==
    /\ Ready
    /\ call' = "generate"
    /\ seed' = None
    /\ curs' = NoneKey(order)
    /\ ret' = <<>>
    /\ pc' = "loop"
    /\ UNCHANGED <<chainVars, iterVars>>

\* Mutant of Chain_generate_from_token: the contains_key test is left out.
Chain_generate_from_token_NoCheck(token) ==
    /\ Ready
    /\ call' = "generate_from_token"
    /\ seed' = token
    /\ ret' = <<token>>
    /\ curs' = Repeat(token, order)
    /\ pc' = "loop"
    /\ UNCHANGED <<chainVars, iterVars>>

\* Mutant of Chain_generate_from_token: the output starts empty, as in generate.
Chain_generate_from_token_NoSeed(token) ==
    /\ Ready
    /\ call' = "generate_from_token"
    /\ seed' = token
    /\ IF Repeat(token, order) \notin DOMAIN map
       THEN /\ ret' = <<>>
            /\ curs' = <<>>
            /\ pc' = "returned"
       ELSE /\ ret' = <<>>
            /\ curs' = Repeat(token, order)
            /\ pc' = "loop"
    /\ UNCHANGED <<chainVars, iterVars>>

\* Mutant of Chain_generate_from_token: an unknown seed window is entered into
\* the map, as map.entry(..).or_insert(..) would.
Chain_generate_from_token_Inserts(token) ==
    /\ Ready
    /\ call' = "generate_from_token"
    /\ seed' = token
    /\ IF Repeat(token, order) \notin DOMAIN map
       THEN /\ ret' = <<>>
            /\ curs' = <<>>
            /\ pc' = "returned"
            /\ map' = Insert(map, Repeat(token, order), EmptyDist)
       ELSE /\ ret' = <<token>>
            /\ curs' = Repeat(token, order)
            /\ pc' = "loop"
            /\ map' = map
    /\ UNCHANGED <<order, hist, iterVars>>

\* Chain::generate_from_token up to its loop.
Chain_generate_from_token(token) ==
    /\ Ready
    /\ call' = "generate_from_token"
    /\ seed' = token
    /\ IF Repeat(token, order) \notin DOMAIN map
       THEN /\ ret' = <<>>
            /\ curs' = <<>>
            /\ pc' = "returned"
       ELSE /\ ret' = <<token>>
            /\ curs' = Repeat(token, order)
            /\ pc' = "loop"
    /\ UNCHANGED <<chainVars, iterVars>>

\* What next() of an iterator hands out once generate() has returned.
Deliver ==
    IF call \in {"sized_next", "infinite_next"}
    THEN /\ item' = "Some"
         /\ pulls' = pulls + 1
    ELSE UNCHANGED <<item, pulls>>

\* Mutant of Slide: the slice is curs[0..order - 1], so the oldest slot is kept
\* and the newest dropped.
SlideStale(c, next) == Append(SubSeq(c, 1, order - 1), next)

\* curs = curs[1..order]; curs.push(next): the window slides by one slot.
Slide(c, next) == Append(SubSeq(c, 2, order), next)

\* Mutant of Finished: the first slot of the window is tested, not the last.
FinishedFirst(c) == c[1] = None

\* curs[order - 1].is_none(): the slot just pushed is the boundary marker.
Finished(c) == c[order] = None

\* Mutant of GenLoop: on an empty distribution the sampler returns the boundary
\* marker instead of failing.
GenLoop_EmptyReturns ==
    /\ pc = "loop"
    /\ UNCHANGED <<chainVars, call, seed, iter, size, size0>>
    /\ IF curs \notin DOMAIN map
       THEN /\ pc' = "panic"
            /\ UNCHANGED <<curs, ret, item, pulls>>
       ELSE IF Total(map[curs]) = 0
       THEN /\ curs' = Slide(curs, None)
            /\ ret' = ret
            /\ pc' = "returned"
            /\ Deliver
       ELSE \E enum \in Enumerations(map[curs]) :
            \E cap \in 0..(Total(map[curs]) - 1) :
               LET next == States_next(map[curs], enum, cap)
               IN IF next = Unreachable
                  THEN /\ pc' = "panic"
                       /\ UNCHANGED <<curs, ret, item, pulls>>
                  ELSE /\ next # None => Len(ret) < MaxGen
                       /\ curs' = Slide(curs, next)
                       /\ ret' = IF next # None THEN Append(ret, next) ELSE ret
                       /\ IF Finished(Slide(curs, next))
                          THEN pc' = "returned" /\ Deliver
                          ELSE pc' = "loop" /\ UNCHANGED <<item, pulls>>

\* One turn of the loop of generate and generate_from_token.
GenLoop ==
    /\ pc = "loop"
    /\ UNCHANGED <<chainVars, call, seed, iter, size, size0>>
    /\ IF curs \notin DOMAIN map \/ Total(map[curs]) = 0
       THEN \* the index panics on a missing key, gen_range(0, 0) on an empty one
            /\ pc' = "panic"
            /\ UNCHANGED <<curs, ret, item, pulls>>
       ELSE \E enum \in Enumerations(map[curs]) :
            \E cap \in 0..(Total(map[curs]) - 1) :
               LET next == States_next(map[curs], enum, cap)
               IN IF next = Unreachable
                  THEN /\ pc' = "panic"
                       /\ UNCHANGED <<curs, ret, item, pulls>>
                  ELSE /\ next # None => Len(ret) < MaxGen
                       /\ curs' = Slide(curs, next)
                       /\ ret' = IF next # None THEN Append(ret, next) ELSE ret
                       /\ IF Finished(Slide(curs, next))
                          THEN pc' = "returned" /\ Deliver
                          ELSE pc' = "loop" /\ UNCHANGED <<item, pulls>>

\* Chain::iter_for.  The iterator borrows the chain.
Chain_iter_for(n) ==
    /\ Ready
    /\ iter = "none"
    /\ iter' = "sized"
    /\ size' = n
    /\ size0' = n
    /\ pulls' = 0
    /\ item' = "unpulled"
    /\ UNCHANGED <<chainVars, pc, callVars>>

\* Chain::iter
Chain_iter ==
    /\ Ready
    /\ iter = "none"
    /\ iter' = "infinite"
    /\ size' = 0
    /\ size0' = 0
    /\ pulls' = 0
    /\ item' = "unpulled"
    /\ UNCHANGED <<chainVars, pc, callVars>>

\* Mutant of SizedChainIterator_next: self.size is not decremented.
SizedChainIterator_next_NoDecrement ==
    /\ Ready
    /\ iter = "sized"
    /\ pulls < MaxPulls
    /\ call' = "sized_next"
    /\ seed' = None
    /\ ret' = <<>>
    /\ IF size > 0
       THEN /\ curs' = NoneKey(order)
            /\ pc' = "loop"
            /\ UNCHANGED <<item, pulls>>
       ELSE /\ item' = "None"
            /\ pulls' = pulls + 1
            /\ curs' = <<>>
            /\ pc' = "returned"
    /\ UNCHANGED <<chainVars, iter, size, size0>>

\* SizedChainIterator::next
SizedChainIterator_next ==
    /\ Ready
    /\ iter = "sized"
    /\ pulls < MaxPulls
    /\ call' = "sized_next"
    /\ seed' = None
    /\ ret' = <<>>
    /\ IF size > 0
       THEN /\ size' = size - 1
            /\ curs' = NoneKey(order)
            /\ pc' = "loop"
            /\ UNCHANGED <<item, pulls>>
       ELSE /\ item' = "None"
            /\ pulls' = pulls + 1
            /\ curs' = <<>>
            /\ pc' = "returned"
            /\ UNCHANGED size
    /\ UNCHANGED <<chainVars, iter, size0>>

\* SizedChainIterator::size_hint: the lower bound and the upper bound.
size_hint == <<size, size>>

\* InfiniteChainIterator::next
InfiniteChainIterator_next ==
    /\ Ready
    /\ iter = "infinite"
    /\ pulls < MaxPulls
    /\ call' = "infinite_next"
    /\ seed' = None
    /\ ret' = <<>>
    /\ curs' = NoneKey(order)
    /\ pc' = "loop"
    /\ UNCHANGED <<chainVars, iterVars>>

\* The iterator goes out of scope and its borrow of the chain ends.
DropIter ==
    /\ Ready
    /\ iter # "none"
    /\ iter' = "none"
    /\ size' = 0
    /\ size0' = 0
    /\ pulls' = 0
    /\ item' = "unpulled"
    /\ ClearCall
    /\ UNCHANGED chainVars

\* ------------------------------------------------------------------ specifications

Init ==
    /\ map = new_map
    /\ order = 1
    /\ hist = <<>>
    /\ pc = "idle"
    /\ call = "none"
    /\ seed = None
    /\ curs = <<>>
    /\ ret = <<>>
    /\ iter = "none"
    /\ size = 0
    /\ size0 = 0
    /\ pulls = 0
    /\ item = "unpulled"

\* The chain and its two generators, over all short sequences of Tokens.
Next ==
    \/ \E k \in Orders : Len(hist) < MaxOps /\ Chain_order(k)
    \/ \E tokens \in FeedInputs : Len(hist) < MaxOps /\ Chain_feed(tokens)
    \/ Chain_generate
    \/ \E token \in Seeds : Chain_generate_from_token(token)
    \/ GenLoop

Spec == Init /\ [][Next]_vars

\* The chain alone: new, order and feed.
NextChain ==
    \/ \E k \in Orders : Len(hist) < MaxOps /\ Chain_order(k)
    \/ \E tokens \in FeedInputs : Len(hist) < MaxOps /\ Chain_feed(tokens)

SpecChain == Init /\ [][NextChain]_vars

\* The chain and its two generators, over the inputs of the crate's tests.
NextTest ==
    \/ \E k \in Orders : Len(hist) < MaxTestOps /\ Chain_order(k)
    \/ \E tokens \in TestFeeds : Len(hist) < MaxTestOps /\ Chain_feed(tokens)
    \/ Chain_generate
    \/ \E token \in TestSeeds : Chain_generate_from_token(token)
    \/ GenLoop

SpecTest == Init /\ [][NextTest]_vars

\* The chain and its iterators, over the inputs of the crate's tests.
NextIter ==
    \/ \E k \in Orders : Len(hist) < MaxOps /\ Chain_order(k)
    \/ \E tokens \in TestInputs : Len(hist) < MaxOps /\ Chain_feed(tokens)
    \/ \E n \in 0..MaxIter : Chain_iter_for(n)
    \/ Chain_iter
    \/ SizedChainIterator_next
    \/ InfiniteChainIterator_next
    \/ GenLoop
    \/ DropIter

SpecIter == Init /\ [][NextIter]_vars

\* The chain, its two generators and its two iterators together, over the
\* inputs of the crate's tests.  The iterators borrow the chain immutably, so
\* generate and generate_from_token may be called while one is alive.
NextAll ==
    \/ \E k \in Orders : Len(hist) < MaxOps /\ Chain_order(k)
    \/ \E tokens \in TestInputs : Len(hist) < MaxOps /\ Chain_feed(tokens)
    \/ Chain_generate
    \/ \E token \in TestSeeds : Chain_generate_from_token(token)
    \/ \E n \in 0..MaxIter : Chain_iter_for(n)
    \/ Chain_iter
    \/ SizedChainIterator_next
    \/ InfiniteChainIterator_next
    \/ GenLoop
    \/ DropIter

SpecAll == Init /\ [][NextAll]_vars

\* ------------------------------------------------------------------ history

\* The slots a window may hold when sequences of Tokens are fed.
Slots == {None} \cup Tokens

\* The calls of feed made so far, in order.
FeedCalls == SelectSeq(hist, LAMBDA e : e.op = "feed")

\* Some non-empty sequence has been fed since construction.
Trained == \E i \in DOMAIN hist : hist[i].op = "feed" /\ hist[i].toks # <<>>

\* No call of order follows a call of feed: the order was fixed before feeding.
OrderFixed ==
    \A i, j \in DOMAIN hist : (i < j /\ hist[i].op = "feed") => hist[j].op = "feed"

\* The sequence S with k boundary markers in front and one at the end.
PaddedInput(k, S) ==
    [i \in 1..(k + Len(S) + 1) |-> IF i <= k \/ i > k + Len(S) THEN None ELSE S[i - k]]

\* The positions of the padded S at which the window w of k + 1 slots stands.
Positions(k, S, w) ==
    {i \in 1..(Len(S) + 1) : SubSeq(PaddedInput(k, S), i, i + k) = w}

\* The number of times context c is followed by s in the non-empty sequences fed
\* at order k.
Observed(k, c, s) ==
    LET fed == {i \in DOMAIN hist :
                   hist[i].op = "feed" /\ hist[i].k = k /\ hist[i].toks # <<>>}
    IN Cardinality(UNION {{<<i, j>> : j \in Positions(k, hist[i].toks, Append(c, s))} :
                             i \in fed})

\* The window w of k + 1 slots stands somewhere in a sequence fed at order k.
ObservedWindow(k, w) ==
    \E i \in DOMAIN hist :
        /\ hist[i].op = "feed"
        /\ hist[i].k = k
        /\ hist[i].toks # <<>>
        /\ Positions(k, hist[i].toks, w) # {}

\* The order is k and the sequences fed are exactly seqs, in this order, all at
\* order k.
FedExactly(k, seqs) ==
    /\ order = k
    /\ Len(FeedCalls) = Len(seqs)
    /\ \A i \in DOMAIN seqs : FeedCalls[i].k = k /\ FeedCalls[i].toks = seqs[i]

\* Some sequence fed at order k holds k consecutive occurrences of token t.
HasRun(k, t) ==
    \E i \in DOMAIN hist :
        /\ hist[i].op = "feed"
        /\ hist[i].k = k
        /\ \E j \in 1..(Len(hist[i].toks) - k + 1) :
               \A d \in 0..(k - 1) : hist[i].toks[j + d] = t

\* The token t occurs in some sequence fed.
WasFed(t) ==
    \E i \in DOMAIN hist :
        hist[i].op = "feed" /\ \E j \in DOMAIN hist[i].toks : hist[i].toks[j] = t

\* The count the index stores for context c and successor s, 0 when it stores none.
HasCount(c, s) == c \in DOMAIN map /\ s \in DOMAIN map[c]
Stored(c, s) == IF HasCount(c, s) THEN map[c][s] ELSE 0

RECURSIVE SumTotals(_, _)
SumTotals(m, K) ==
    IF K = {} THEN 0
    ELSE LET c == CHOOSE x \in K : TRUE
         IN Total(m[c]) + SumTotals(m, K \ {c})

\* The number of transition observations the index m holds: the sum of all
\* successor counts of all windows.
Observations(m) == SumTotals(m, DOMAIN m)

\* The step is a call of feed, and Fed is the sequence it was given.
FeedStep == hist' # hist /\ hist'[Len(hist')].op = "feed"
Fed == hist'[Len(hist')].toks

\* ------------------------------------------------------------------ claims

\* C1: with the order fixed before feeding, the count stored for (c, s) is the
\* number of positions at which c is followed by s in the non-empty sequences
\* fed, each padded with order boundary markers in front and one at the end,
\* and a pair that occurs at no position has no count.
C1_CountsAreOccurrences ==
    OrderFixed =>
        \A c \in DOMAIN map \cup [1..order -> Slots] : \A s \in Slots :
            /\ Stored(c, s) = Observed(order, c, s)
            /\ HasCount(c, s) <=> Observed(order, c, s) > 0

\* Two sequences were fed at a fixed order and some pair was seen twice.
C1_Witness ==
    /\ OrderFixed
    /\ Len(FeedCalls) = 2
    /\ \E c \in DOMAIN map : \E s \in DOMAIN map[c] : map[c][s] = 2

\* C3 (as claimed): a call of order leaves every window of the index mapped to
\* the counts it had, and the all-boundary window of the new order is a key.
C3_OrderKeepsCounts ==
    [][(hist' # hist /\ hist'[Len(hist')].op = "order") =>
          /\ \A c \in DOMAIN map : c \in DOMAIN map' /\ map'[c] = map[c]
          /\ NoneKey(order') \in DOMAIN map']_vars

\* C4 (as claimed): is_empty() is true exactly when no non-empty sequence has
\* been fed since construction.
C4_EmptyIffUntrained == is_empty <=> ~Trained

\* C2: every sequence generate() returns is such that each window of order + 1
\* slots of the output, padded with order boundary markers in front and one at
\* the end, stands in some sequence fed at the current order; at order 1 fed
\* [3,5,10] then [5,12] the output is one of [3,5,10], [3,5,12], [5,10], [5,12],
\* and at order 2 fed [3,5,10] then [2,3,5,12] it is one of [3,5,10], [3,5,12],
\* [2,3,5,10], [2,3,5,12].
C2_GenerateFollowsTraining ==
    (pc = "returned" /\ call = "generate") =>
        /\ \A i \in 1..(Len(ret) + 1) :
              ObservedWindow(order, SubSeq(PaddedInput(order, ret), i, i + order))
        /\ FedExactly(1, <<(<<3, 5, 10>>), (<<5, 12>>)>>) =>
              ret \in {<<3, 5, 10>>, <<3, 5, 12>>, <<5, 10>>, <<5, 12>>}
        /\ FedExactly(2, <<(<<3, 5, 10>>), (<<2, 3, 5, 12>>)>>) =>
              ret \in {<<3, 5, 10>>, <<3, 5, 12>>, <<2, 3, 5, 10>>, <<2, 3, 5, 12>>}

\* generate() at order 2, fed [3,5,10] then [2,3,5,12], has returned [2,3,5,10],
\* which was never fed as a whole.
C2_Witness ==
    /\ pc = "returned"
    /\ call = "generate"
    /\ FedExactly(2, <<(<<3, 5, 10>>), (<<2, 3, 5, 12>>)>>)
    /\ ret = <<2, 3, 5, 10>>

\* C5: generate_from_token(seed) returns the empty sequence, with no failure,
\* whenever the window of order copies of seed is no key of the index: so for
\* every token never fed, and on a chain that was never fed.
C5_UnknownSeedReturnsEmpty ==
    call = "generate_from_token" =>
        /\ Repeat(seed, order) \notin DOMAIN map => (pc = "returned" /\ ret = <<>>)
        /\ ~WasFed(seed) => (pc = "returned" /\ ret = <<>>)
        /\ ~Trained => (pc = "returned" /\ ret = <<>>)

\* generate_from_token has returned for a seed never fed, on a trained chain.
C5_Witness ==
    /\ call = "generate_from_token"
    /\ seed = UnfedToken
    /\ Trained
    /\ ~is_empty
    /\ pc = "returned"
    /\ ret = <<>>

\* The window that precedes element i >= 2 of the output of
\* generate_from_token, with that element.
SeededWindow(i) ==
    LET before == Repeat(seed, order) \o SubSeq(ret, 2, i - 1)
    IN Append(SubSeq(before, Len(before) - order + 1, Len(before)), ret[i])

\* C6: generate_from_token(seed) returns a non-empty sequence if and only if some
\* sequence fed at the current order holds order consecutive occurrences of
\* seed; the output then starts with seed and every later element was observed
\* in training after the window that precedes it; fed [3,5,10] and [5,12] at
\* order 1, generate_from_token(5) is one of [5,10], [5,12].
C6_SeededOutput ==
    call = "generate_from_token" =>
        /\ pc # "panic"
        /\ pc = "loop" => HasRun(order, seed)
        /\ pc = "returned" => (ret # <<>> <=> HasRun(order, seed))
        /\ ret # <<>> =>
              /\ ret[1] = seed
              /\ \A i \in 2..Len(ret) : ObservedWindow(order, SeededWindow(i))
        /\ (pc = "returned" /\ seed = 5 /\ FedExactly(1, <<(<<3, 5, 10>>), (<<5, 12>>)>>)) =>
              ret \in {<<5, 10>>, <<5, 12>>}

\* generate_from_token(5) has returned [5,12] at order 1, fed [3,5,10] then [5,12].
C6_Witness ==
    /\ call = "generate_from_token"
    /\ pc = "returned"
    /\ seed = 5
    /\ FedExactly(1, <<(<<3, 5, 10>>), (<<5, 12>>)>>)
    /\ ret = <<5, 12>>

\* C7: feeding the empty sequence changes nothing: the windows of the index,
\* every successor count, the order and the result of is_empty() stay as they
\* were.
C7_EmptyFeedIsNoOp ==
    [][(FeedStep /\ Fed = <<>>) =>
          /\ DOMAIN map' = DOMAIN map
          /\ map' = map
          /\ order' = order
          /\ is_empty' = is_empty]_vars

\* The empty sequence was fed to a trained chain.
C7_Witness ==
    /\ Len(hist) = 2
    /\ hist[1].op = "feed" /\ hist[1].toks # <<>>
    /\ hist[2].op = "feed" /\ hist[2].toks = <<>>
    /\ ~is_empty

\* C8 (as claimed): one call of feed with a sequence of length n, for any n,
\* raises the sum of all successor counts by exactly n + 1.
C8_FeedAddsLenPlusOne ==
    [][FeedStep => Observations(map') = Observations(map) + Len(Fed) + 1]_vars

\* C8 (amended): one call of feed with a non-empty sequence of length n raises
\* the sum of all successor counts by exactly n + 1, and one with the empty
\* sequence leaves it as it is.
C8_NonEmptyFeedAddsLenPlusOne ==
    [][FeedStep =>
          Observations(map') =
              Observations(map) + (IF Fed = <<>> THEN 0 ELSE Len(Fed) + 1)]_vars

\* Two sequences of two tokens each were fed: six observations are held.
C8_Witness ==
    /\ Len(hist) = 2
    /\ hist[1].op = "feed" /\ Len(hist[1].toks) = 2
    /\ hist[2].op = "feed" /\ Len(hist[2].toks) = 2
    /\ Observations(map) = 6

\* C9: from every chain state and for any two sequences A and B, feed(A) then
\* feed(B) gives the same table of counts as feed(B) then feed(A).
C9_FeedCommutes ==
    \A A, B \in FeedInputs :
        FeedMap(FeedMap(map, order, A), order, B) =
            FeedMap(FeedMap(map, order, B), order, A)

\* A trained chain from which two different sequences can be fed that count the
\* same window, each changing what the other leaves.
C9_Witness ==
    /\ ~is_empty
    /\ \E A, B \in FeedInputs :
          /\ A # B
          /\ A # <<>> /\ B # <<>>
          /\ A[1] = B[1]
          /\ FeedMap(FeedMap(map, order, A), order, B) # FeedMap(map, order, A)
          /\ FeedMap(FeedMap(map, order, A), order, B) # FeedMap(map, order, B)

\* C10: an iterator made by iter_for(N) on a non-empty chain never fails; after
\* j <= N calls of next() have returned, each returned a sequence and
\* size_hint() is (N - j, N - j); every later call signals completion and
\* leaves the remaining count at 0; the remaining count is never below 0.
C10_SizedIterator ==
    iter = "sized" =>
        /\ size >= 0
        /\ ~is_empty => pc # "panic"
        /\ (Ready /\ pulls <= size0) =>
              /\ size_hint = <<size0 - pulls, size0 - pulls>>
              /\ pulls >= 1 => item = "Some"
        /\ (Ready /\ pulls > size0) =>
              /\ size_hint = <<0, 0>>
              /\ item = "None"
        /\ pc = "loop" => (pulls < size0 /\ size = size0 - pulls - 1)

\* An iterator of size 1 on a non-empty chain was pulled twice: a sequence, then
\* completion.
C10_Witness ==
    /\ iter = "sized"
    /\ ~is_empty
    /\ size0 = 1
    /\ pulls = 2
    /\ item = "None"
    /\ size = 0

\* The sampler can be called on the generator's window: the window is a key of
\* the index and its distribution has positive total weight.
CanSample == curs \in DOMAIN map /\ Total(map[curs]) > 0

\* C11 (as claimed): once a non-empty sequence has been fed, whatever calls of
\* order and feed follow, every window generate() reaches is a key of the index
\* whose distribution has positive total weight, and generate() does not fail.
C11_TrainedGenerateSafe ==
    (Trained /\ call = "generate") =>
        /\ pc # "panic"
        /\ pc = "loop" => CanSample

C18_SeededNeverFails ==
    call = "generate_from_token" =>
        /\ pc # "panic"
        /\ pc = "loop" => (CanSample /\ map[curs] # EmptyDist)
        /\ Repeat(seed, order) \in DOMAIN map => map[Repeat(seed, order)] # EmptyDist

\* generate_from_token has returned an output on a trained chain whose start
\* distribution an order change has emptied.
C18_Witness ==
    /\ call = "generate_from_token"
    /\ pc = "returned"
    /\ ret # <<>>
    /\ Trained
    /\ is_empty

\* C12: for the non-empty distribution the sampler is called on, with total
\* weight W, and every order in which its entries may be enumerated, each
\* number drawn in [0, W) makes the sampler return an entry of the distribution
\* (never the unreachable branch), and the number of draws that return a given
\* successor is that successor's count.
C12_SamplerProportional ==
    (pc = "loop" /\ CanSample) =>
        LET dist == map[curs]
            W == Total(dist)
        IN \A enum \in Enumerations(dist) :
              /\ \A cap \in 0..(W - 1) : States_next(dist, enum, cap) \in DOMAIN dist
              /\ \A s \in DOMAIN dist :
                    Cardinality({cap \in 0..(W - 1) : States_next(dist, enum, cap) = s})
                        = dist[s]

\* The sampler is called on a distribution of two entries with different counts.
C12_Witness ==
    /\ pc = "loop"
    /\ CanSample
    /\ \E s, t \in DOMAIN map[curs] : map[curs][s] < map[curs][t]

\* The windows of the current order from which some path of positive-count
\* successors ends in the boundary marker: the least set that holds every
\* window with the boundary marker as a successor and every window with a
\* successor whose next window is in the set.
RECURSIVE Finishing(_)
Finishing(G) ==
    LET G2 == G \cup {w \in DOMAIN map :
                     /\ Len(w) = order
                     /\ \E s \in DOMAIN map[w] :
                           map[w][s] > 0 /\ (s = None \/ Slide(w, s) \in G)}
    IN IF G2 = G THEN G ELSE Finishing(G2)

CanFinish(w) == w \in Finishing({})

\* C13 (as claimed): from every window generate() or generate_from_token()
\* reaches there is a finite path of positive-count successors that ends in
\* the boundary marker.
C13_EveryWindowCanFinish == pc = "loop" => CanFinish(curs)

\* C13 (amended): the same for every window reached other than the start window
\* when its distribution is empty.
C13_SampledWindowCanFinish ==
    (pc = "loop" /\ ~(curs = NoneKey(order) /\ is_empty)) =>
        (curs \in DOMAIN map /\ CanFinish(curs))

\* The generator is at a window that is its own successor, after two tokens: it
\* may stay there or draw the boundary marker.
C13_Witness ==
    /\ pc = "loop"
    /\ Len(ret) >= 2
    /\ curs \in DOMAIN map
    /\ \E s \in DOMAIN map[curs] : s # None /\ Slide(curs, s) = curs
    /\ None \in DOMAIN map[curs]

\* C17: generate() called when the start window's distribution is empty fails
\* at its first sampling step: it returns no sequence, not even an empty one,
\* and takes no second turn of its loop.
C17_EmptyGenerateFails ==
    [][/\ (call' = "generate" /\ is_empty') =>
             (ret' = <<>> /\ curs' = NoneKey(order') /\ pc' \in {"loop", "panic"})
       /\ (call = "generate" /\ is_empty /\ pc = "loop") => pc' = "panic"]_vars

\* generate() has failed on a chain whose start distribution is empty, while
\* generate_from_token would find trained windows.
C17_Witness ==
    /\ call = "generate"
    /\ is_empty
    /\ pc = "panic"
    /\ Trained

\* C15: in every state reached by new, order and feed the order is at least 1
\* and the all-boundary window of the current order is a key of the index.
C15_StartWindowIsKey ==
    /\ order >= 1
    /\ NoneKey(order) \in DOMAIN map

\* A trained chain was given a longer order.
C15_Witness ==
    /\ order = 2
    /\ hist # <<>>
    /\ hist[1].op = "feed"
    /\ hist[1].toks # <<>>
    /\ hist[Len(hist)].op = "order"

\* C19: every stored successor count is at least 1, and a window with an empty
\* distribution holds boundary markers only.
C19_CountsPositive ==
    \A c \in DOMAIN map :
        /\ \A s \in DOMAIN map[c] : map[c][s] \in Nat \ {0}
        /\ map[c] = EmptyDist => \A i \in DOMAIN c : c[i] = None

\* A trained chain holds an all-boundary start window with an empty
\* distribution next to a window of tokens with a counted successor.
C19_Witness ==
    /\ map[NoneKey(order)] = EmptyDist
    /\ \E c \in DOMAIN map : c # NoneKey(Len(c)) /\ map[c] # EmptyDist

\* C14: generation never changes the chain: every step of generate(), of
\* generate_from_token() and of a pull of either iterator, and the creation and
\* the drop of an iterator (every step that is not a call of order or feed),
\* leaves the order, the set of windows and all counts as they were.
C14_GenerationKeepsChain ==
    [][hist' = hist => (order' = order /\ map' = map)]_vars

\* While an iterator that has handed out a sequence is alive, a direct call of
\* generate_from_token has returned a sequence too.
C14_Witness ==
    /\ iter # "none"
    /\ pulls >= 1
    /\ item = "Some"
    /\ call = "generate_from_token"
    /\ pc = "returned"
    /\ ret # <<>>

=============================================================================
